---------------------------- MODULE Spec2Model ----------------------------
(***************************************************************************)
(* The binaryen package recipe (conanfile.py, class BinaryenConan) as a    *)
(* state machine.  The recipe has four methods, source, build, package and *)
(* package_info, which the package manager calls; each is one action.  The *)
(* recipe keeps no record of which method ran: every method issues its     *)
(* external calls whenever it is called.  The collaborators the recipe     *)
(* calls (tools.get, the CMake helper, tools.collect_libs) are not part of *)
(* the repository; they are modelled by their documented contract, and     *)
(* whether the network, the compiler or the installer fails is a choice of *)
(* the environment.                                                        *)
(***************************************************************************)
EXTENDS Naturals, Sequences, FiniteSets, TLC

VARIABLES
    url,               \* self.url
    version,           \* self.version
    source_subfolder,  \* self._source_subfolder
    libs,              \* self.cpp_info.libs
    archive,           \* what the upstream endpoint serves for the tag
    produced,          \* the library files the wrapped project's build yields
    fs,                \* folder name -> the paths extracted below it
    build_tree,        \* the build folder of the external build system
    staging,           \* the package folder's lib directory, as it lists its files
    requests,          \* the download requests issued so far
    drivers,           \* one log of driver steps per CMake(self) constructed
    calls              \* the recipe methods called so far, with their outcome

vars == <<url, version, source_subfolder, libs, archive, produced,
          fs, build_tree, staging, requests, drivers, calls>>

\* How many recipe methods the package manager calls in one behaviour.
MaxCalls == 5

NoError == "none"
NoneValue == "None"

---------------------------------------------------------------------------
(* The descriptor: class attributes of BinaryenConan.                      *)

\* (url, version) pairs: the recipe's own, and the ones of the spec's
\* Scenario A (a recipe instance whose attributes were set differently).
Descriptors ==
    { <<"https://github.com/WebAssembly/binaryen", "version_101">>,
      <<"https://example.org/foo", "v1.2.0">> }

ClassSourceSubfolder == "source_subfolder"

Folders == {"source_subfolder", "."}

---------------------------------------------------------------------------
(* Python's "%" string formatting with %s conversions: the template is a   *)
(* sequence of literal pieces and "%s" placeholders; each placeholder is   *)
(* replaced by the next argument, in order.                                *)

RECURSIVE PercentFormat(_, _)
PercentFormat(template, args) ==
    IF template = <<>> THEN ""
    ELSE IF Head(template) = "%s"
         THEN Head(args) \o PercentFormat(Tail(template), Tail(args))
         ELSE Head(template) \o PercentFormat(Tail(template), args)

UrlTemplate == <<"%s", "/archive/refs/tags/", "%s", ".tar.gz">>

\* The % operator with its two arguments swapped.
DownloadUrlSwapped(u, v) == PercentFormat(UrlTemplate, <<v, u>>)

\* "%s/archive/refs/tags/%s.tar.gz" % (self.url, self.version)
DownloadUrl(u, v) == PercentFormat(UrlTemplate, <<u, v>>)

---------------------------------------------------------------------------
(* tools.get: download and unpack.  An archive is a set of member paths,   *)
(* each a sequence of names.                                               *)

Archives ==
    { { <<"foo-1.2.0", "CMakeLists.txt">>, <<"foo-1.2.0", "src", "main.c">> },
      { <<"binaryen-version_101", "README.md">> },
      { <<"a", "CMakeLists.txt">>, <<"b", "x.c">> },
      { <<"CMakeLists.txt">> },
      {} }

Roots(tree) == { Head(p) : p \in tree }

\* The entries directly below a folder.
Children(tree) == Roots(tree)

HasSingleRoot(tree) ==
    /\ Cardinality(Roots(tree)) = 1
    /\ \A p \in tree : Len(p) > 1

StripRoot(tree) == { Tail(p) : p \in tree }

\* The outcome of tools.get(url, destination, strip_root): the error raised
\* (NoError when none) and the tree written below the destination.
tools_get(reachable, served, strip_root) ==
    IF ~reachable \/ served = {}
    THEN [raised |-> "AcquisitionError", tree |-> {}]
    ELSE IF ~strip_root
    THEN [raised |-> NoError, tree |-> served]
    ELSE IF HasSingleRoot(served)
    THEN [raised |-> NoError, tree |-> StripRoot(served)]
    ELSE [raised |-> "AcquisitionError", tree |-> {}]

---------------------------------------------------------------------------
(* The CMake helper.  A driver is the log of what was done with one        *)
(* CMake(self) object: each entry records the step, its argument, the      *)
(* definitions the object held at that step and the error it raised.       *)

DefaultDefinitions == [CMAKE_INSTALL_PREFIX |-> "package_folder"]

EmptyTree == [configured |-> FALSE, cache |-> <<>>, compiled |-> FALSE,
              outputs |-> {}]

Manifest == "CMakeLists.txt"

\* The files of a directory listing.
Files(listing) == { listing[k] : k \in 1..Len(listing) }

\* The state threaded through the statements of one method.
Start == [log |-> <<>>, defs |-> DefaultDefinitions, tree |-> build_tree,
          stage |-> Files(staging), raised |-> NoError]

Entry(step, arg, defs, raised) ==
    [step |-> step, arg |-> arg, defs |-> defs, raised |-> raised]

Raise(st, step, arg, err) ==
    [st EXCEPT !.log = Append(@, Entry(step, arg, st.defs, err)),
               !.raised = err]

\* cmake.definitions[name] = value
Define(st, name, value) ==
    LET d == (name :> value) @@ st.defs
    IN  [st EXCEPT !.defs = d,
                   !.log = Append(@, Entry("define", <<name, value>>, d, NoError))]

\* cmake.configure(source_folder=folder)
Configure(st, folder) ==
    IF folder \in Folders /\ Manifest \in Children(fs[folder])
    THEN [st EXCEPT !.log = Append(@, Entry("configure", folder, st.defs, NoError)),
                    !.tree = [configured |-> TRUE, cache |-> st.defs,
                              compiled |-> FALSE, outputs |-> {}]]
    ELSE Raise(st, "configure", folder, "ConfigurationError")

\* cmake.build()
Compile(st, fault) ==
    IF st.tree.configured /\ ~fault
    THEN [st EXCEPT !.log = Append(@, Entry("build", "", st.defs, NoError)),
                    !.tree = [@ EXCEPT !.compiled = TRUE, !.outputs = produced]]
    ELSE Raise(st, "build", "", "CompilationError")

\* cmake.install()
Install(st, fault) ==
    IF st.tree.compiled /\ ~fault
    THEN [st EXCEPT !.log = Append(@, Entry("install", "", st.defs, NoError)),
                    !.stage = @ \cup st.tree.outputs]
    ELSE Raise(st, "install", "", "InstallationError")

\* Statements run as if each were wrapped in try/except: pass.
ExecSwallowing(st, ins, fault) ==
    CASE ins[1] = "define"    -> Define(st, ins[2], ins[3])
      [] ins[1] = "configure" -> Configure(st, ins[2])
      [] ins[1] = "build"     -> Compile(st, fault)
      [] ins[1] = "install"   -> Install(st, fault)

\* One statement of a method.  An exception raised by an earlier statement
\* propagates: the statements after it are not executed.
Exec(st, ins, fault) ==
    IF st.raised # NoError THEN st
    ELSE CASE ins[1] = "define"    -> Define(st, ins[2], ins[3])
           [] ins[1] = "configure" -> Configure(st, ins[2])
           [] ins[1] = "build"     -> Compile(st, fault)
           [] ins[1] = "install"   -> Install(st, fault)

RECURSIVE Run(_, _, _)
Run(st, prog, fault) ==
    IF prog = <<>> THEN st
    ELSE Run(Exec(st, Head(prog), fault), Tail(prog), fault)

---------------------------------------------------------------------------
(* tools.collect_libs: the library names found in the package folder's lib *)
(* directory.  A file is its name as os.path.splitext splits it: the part  *)
(* before the extension, and the extension.  The names are collected in    *)
(* the order of discovery, each once; a name is the file name without its  *)
(* extension (lib/libfoo.a gives libfoo).                                  *)

File(stem, ext) == [stem |-> stem, ext |-> ext]

LibraryExtensions == {".so", ".lib", ".a", ".dylib", ".bc"}

\* What the wrapped project's build may leave to install.
ProducedSets ==
    { { File("LICENSE", ".txt") },
      { File("libbinaryen", ".a") },
      { File("libfoo", ".a"), File("libbar", ".so") },
      { File("libbinaryen", ".a"), File("libbinaryen", ".so"),
        File("libasmjs", ".so") } }

LibName(f) == f.stem

InSeq(x, s) == \E i \in 1..Len(s) : s[i] = x

RECURSIVE Collect(_, _)
Collect(listing, result) ==
    IF listing = <<>> THEN result
    ELSE LET f == Head(listing)
         IN  Collect(Tail(listing),
                     IF f.ext \in LibraryExtensions /\ ~InSeq(LibName(f), result)
                     THEN Append(result, LibName(f))
                     ELSE result)

collect_libs(listing) == Collect(listing, <<>>)

\* The orders in which a directory holding the files of dir may list them;
\* the order is the file system's choice when the directory is written and
\* stays as it is while the directory is unchanged.
Listings(dir) ==
    { l \in [1..Cardinality(dir) -> dir] :
        \A i, j \in 1..Cardinality(dir) : l[i] = l[j] => i = j }

---------------------------------------------------------------------------
(* The recipe's methods.  A definition described as a variant ("build()    *)
(* compiling before it configures") is not part of the recipe: it is a     *)
(* faulty version of the definition after it, which the properties at the  *)
(* end must tell apart from the recipe.                                    *)

CanCall == Len(calls) < MaxCalls

\* One call of a recipe method as the package manager sees it: the method,
\* the exception that came out of it (NoError when it returned), what it
\* returned, the driver it constructed (0 when none) and cpp_info.libs
\* after it.
Call(op, raised, driver, value) ==
    [op |-> op, raised |-> raised, returned |-> NoneValue,
     driver |-> driver, libs |-> value]

Init ==
    /\ \E d \in Descriptors : url = d[1] /\ version = d[2]
    /\ source_subfolder = ClassSourceSubfolder
    /\ libs = <<>>
    /\ archive \in Archives
    /\ produced \in ProducedSets
    /\ fs = [f \in Folders |-> {}]
    /\ build_tree = EmptyTree
    /\ staging = <<>>
    /\ requests = <<>>
    /\ drivers = <<>>
    /\ calls = <<>>

\* tools.get(<url>, destination=self._source_subfolder, strip_root=<flag>)
Get(strip_root) ==
    /\ CanCall
    /\ \E reachable \in BOOLEAN :
         LET r == tools_get(reachable, archive, strip_root)
         IN  /\ requests' = Append(requests,
                    [url |-> DownloadUrl(url, version),
                     destination |-> source_subfolder,
                     strip_root |-> strip_root])
             /\ fs' = IF r.raised = NoError
                      THEN [fs EXCEPT ![source_subfolder] = @ \cup r.tree]
                      ELSE fs
             /\ calls' = Append(calls, Call("source", r.raised, 0, libs))
    /\ UNCHANGED <<url, version, source_subfolder, libs, archive,
                   produced, build_tree, staging, drivers>>

\* source() passing strip_root=False (the default of tools.get).
source_keeping_root == Get(FALSE)

\* def source(self)
source == Get(TRUE)

\* build() compiling before it configures.
BuildProgramCompileFirst ==
    << <<"define", "BUILD_STATIC_LIB", 1>>,
       <<"build">>,
       <<"configure", source_subfolder>> >>

\* build() configuring the default source folder instead of the subfolder.
BuildProgramDefaultFolder ==
    << <<"define", "BUILD_STATIC_LIB", 1>>,
       <<"configure", ".">>,
       <<"build">> >>

\* The statements of build() after cmake = CMake(self).
BuildProgram ==
    << <<"define", "BUILD_STATIC_LIB", 1>>,
       <<"configure", source_subfolder>>,
       <<"build">> >>

\* package() that never calls install.
PackageProgramEmpty == <<>>

\* The statements of package() after cmake = CMake(self).
PackageProgram == << <<"install">> >>

\* A method that constructs a driver, cmake = CMake(self), and runs the
\* statements of prog on it.
DriverMethod(op, prog) ==
    /\ CanCall
    /\ \E fault \in BOOLEAN :
         LET st == Run(Start, prog, fault)
         IN  /\ drivers' = Append(drivers, st.log)
             /\ build_tree' = st.tree
             /\ IF st.stage = Files(staging)
                THEN staging' = staging
                ELSE staging' \in Listings(st.stage)
             /\ calls' = Append(calls,
                                Call(op, st.raised, Len(drivers) + 1, libs))
    /\ UNCHANGED <<url, version, source_subfolder, libs, archive,
                   produced, fs, requests>>

\* def build(self)
build == DriverMethod("build", BuildProgram)

\* def package(self)
package == DriverMethod("package", PackageProgram)

\* self.cpp_info.libs += value
ExtendLibs(old, value) == old \o value

\* self.cpp_info.libs = value: the attribute is rebound to the new list.
AssignLibs(old, value) == value

\* package_info() that raises when it finds no library.
package_info_requiring_libs ==
    /\ CanCall
    /\ LET found == collect_libs(staging)
       IN  /\ libs' = IF found = <<>> THEN libs ELSE found
           /\ calls' = Append(calls,
                  Call("package_info",
                       IF found = <<>> THEN "ConanException" ELSE NoError,
                       0, libs'))
    /\ UNCHANGED <<url, version, source_subfolder, archive, produced,
                   fs, build_tree, staging, requests, drivers>>

\* def package_info(self)
package_info ==
    /\ CanCall
    /\ libs' = AssignLibs(libs, collect_libs(staging))
    /\ calls' = Append(calls, Call("package_info", NoError, 0, libs'))
    /\ UNCHANGED <<url, version, source_subfolder, archive, produced,
                   fs, build_tree, staging, requests, drivers>>

Next ==
    \/ source
    \/ build
    \/ package
    \/ package_info

Spec == Init /\ [][Next]_vars

---------------------------------------------------------------------------
(* Properties.                                                             *)

CallIdx == 1..Len(calls)

Ok(i, op) == calls[i].op = op /\ calls[i].raised = NoError

OkBefore(i, op) == \E j \in 1..(i - 1) : Ok(j, op)

IsDriverCall(i) == calls[i].op \in {"build", "package"}

LogOf(i) == drivers[calls[i].driver]

StepsOf(log, step) == { k \in 1..Len(log) : log[k].step = step }

\* C1: every call of source issues exactly one download request, and the
\* URL requested is url + "/archive/refs/tags/" + version + ".tar.gz"; for
\* url "https://example.org/foo" and version "v1.2.0" that is
\* "https://example.org/foo/archive/refs/tags/v1.2.0.tar.gz".
C1_DownloadUrl ==
    /\ Len(requests) = Cardinality({ i \in CallIdx : calls[i].op = "source" })
    /\ \A k \in 1..Len(requests) :
         /\ requests[k].url = url \o "/archive/refs/tags/" \o version \o ".tar.gz"
         /\ (url = "https://example.org/foo" /\ version = "v1.2.0")
              => requests[k].url =
                   "https://example.org/foo/archive/refs/tags/v1.2.0.tar.gz"
         /\ (url = "https://github.com/WebAssembly/binaryen"
             /\ version = "version_101")
              => requests[k].url =
                   "https://github.com/WebAssembly/binaryen/archive/refs/tags/version_101.tar.gz"

C1_Witness ==
    /\ url = "https://example.org/foo"
    /\ Len(requests) = 2
    /\ requests[2].url = "https://example.org/foo/archive/refs/tags/v1.2.0.tar.gz"

\* The lifecycle phase after the first k calls: the last method that
\* returned normally, "Created" when none did.
RECURSIVE Phase(_)
Phase(k) ==
    IF k = 0 THEN "Created"
    ELSE IF calls[k].raised = NoError THEN calls[k].op
    ELSE Phase(k - 1)

Predecessor(op) ==
    CASE op = "source"  -> "Created"
      [] op = "build"   -> "source"
      [] op = "package" -> "build"

\* C2 as claimed: the lifecycle is strictly linear.  A call of source,
\* build or package completes only from the phase immediately before it,
\* and package_info runs (the artifact set is computed) only once package
\* has completed.
C2_StrictlyLinear ==
    \A i \in CallIdx :
        /\ (calls[i].op # "package_info" /\ calls[i].raised = NoError)
             => Phase(i - 1) = Predecessor(calls[i].op)
        /\ calls[i].op = "package_info"
             => Phase(i - 1) \in {"package", "package_info"}

\* C2 as amended: the recipe guards no method, so any method may be called
\* in any phase; what holds, from clean folders, is the order of the
\* completions.  build completes only after a source completed, package
\* completes only after a build completed, and the artifact list is
\* non-empty only after a package completed.
C2_CompletionOrder ==
    /\ \A i \in CallIdx :
         /\ Ok(i, "build") => OkBefore(i, "source")
         /\ Ok(i, "package") => OkBefore(i, "build")
         /\ (calls[i].op = "package_info" /\ calls[i].libs # <<>>)
              => OkBefore(i, "package")
    /\ libs # <<>> => \E j \in CallIdx : Ok(j, "package")

\* package_info is called first and source twice, and build and package
\* still complete.
C2_Witness ==
    /\ Len(calls) = 5
    /\ calls[1].op = "package_info"
    /\ Ok(2, "source")
    /\ Ok(3, "source")
    /\ Ok(4, "build")
    /\ Ok(5, "package")

IsStatic(defs) ==
    "BUILD_STATIC_LIB" \in DOMAIN defs /\ defs["BUILD_STATIC_LIB"] = 1

\* The option sets C3 speaks of: no option, a static library requested, a
\* shared library requested.  build(self) has no parameter through which
\* it could be given one, so they appear only in the statement of C3.
RequestedOptionSets == { <<>>, [staticLib |-> TRUE], [staticLib |-> FALSE] }

\* C3: for every option set requested, the definitions build has applied
\* when it completes are exactly the requested options: a static-library
\* definition is applied when staticLib = true is requested and only then,
\* and no definition is applied for an option that was not requested.
C3_AppliesRequested ==
    \A opts \in RequestedOptionSets :
    \A i \in CallIdx : Ok(i, "build") =>
        \A k \in StepsOf(LogOf(i), "configure") \cup StepsOf(LogOf(i), "build") :
            /\ IsStatic(LogOf(i)[k].defs)
                 <=> ("staticLib" \in DOMAIN opts /\ opts.staticLib)
            /\ ("BUILD_STATIC_LIB" \in DOMAIN LogOf(i)[k].defs)
                 <=> ("staticLib" \in DOMAIN opts)

\* C4: the definitions the driver holds are the same at every driver step
\* of one invocation: when build has completed and package then installs,
\* the definitions held at install are the ones set before configure and
\* held at configure and compile in build.
C4_DefinitionsStable ==
    \A i, j \in CallIdx :
        (Ok(i, "build") /\ Ok(j, "package") /\ i < j) =>
            \A k \in StepsOf(LogOf(i), "configure") \cup StepsOf(LogOf(i), "build") :
            \A m \in StepsOf(LogOf(j), "install") :
                LogOf(j)[m].defs = LogOf(i)[k].defs

\* C5: in every call of build the option definitions are set first, then
\* configure runs, then compile; compile is never invoked before configure
\* has completed and no definition is set after configure was invoked.
C5_BuildStepOrder ==
    \A i \in CallIdx : calls[i].op = "build" =>
        LET log == LogOf(i)
        IN  /\ \A k \in StepsOf(log, "build") :
                 \E c \in StepsOf(log, "configure") :
                     c < k /\ log[c].raised = NoError
            /\ \A c \in StepsOf(log, "configure") :
                 /\ \A d \in StepsOf(log, "define") : d < c
                 /\ "BUILD_STATIC_LIB" \in DOMAIN log[c].defs
            /\ \A k \in 1..Len(log) : log[k].step \in {"define", "configure", "build"}

\* build ran all three steps.
C5_Witness ==
    \E i \in CallIdx :
        /\ Ok(i, "build")
        /\ Len(LogOf(i)) = 3
        /\ LogOf(i)[3].step = "build"

ProgramLength(op) == IF op = "build" THEN 3 ELSE 1

\* C6: a failure is terminal.  The failing external call is made once, its
\* error comes out of the method unchanged, no later step of the method
\* runs after it (no compile after a failed configure), and the method
\* returns normally only when every one of its steps succeeded, so that
\* nothing is compiled or staged by a method that failed.
C6_FailureIsTerminal ==
    /\ Len(requests) = Cardinality({ i \in CallIdx : calls[i].op = "source" })
    /\ \A i \in CallIdx : IsDriverCall(i) =>
         LET log == LogOf(i)
         IN  /\ \A k \in 1..Len(log) : \A m \in 1..Len(log) :
                   (log[k].step = log[m].step) => k = m
             /\ calls[i].raised # NoError =>
                  /\ log # <<>>
                  /\ log[Len(log)].raised = calls[i].raised
                  /\ \A k \in 1..(Len(log) - 1) : log[k].raised = NoError
             /\ calls[i].raised = NoError =>
                  /\ Len(log) = ProgramLength(calls[i].op)
                  /\ \A k \in 1..Len(log) : log[k].raised = NoError
    /\ fs[source_subfolder] # {} => \E i \in CallIdx : Ok(i, "source")
    /\ build_tree.compiled => \E i \in CallIdx : Ok(i, "build")
    /\ staging # <<>> => \E i \in CallIdx : Ok(i, "package")

\* Each of the four failures has come out of a method.
C6_Witness ==
    /\ \E i \in CallIdx : calls[i].op = "source" /\ calls[i].raised = "AcquisitionError"
    /\ \E i \in CallIdx : calls[i].op = "build" /\ calls[i].raised = "ConfigurationError"
    /\ \E i \in CallIdx : calls[i].op = "build" /\ calls[i].raised = "CompilationError"
    /\ \E i \in CallIdx : calls[i].op = "package" /\ calls[i].raised = "InstallationError"

\* C7: the source subfolder is one fixed value: the folder build hands to
\* configure is the destination source extracted into, and no method
\* changes the attribute.
C7_SubfolderStable ==
    /\ source_subfolder = "source_subfolder"
    /\ \A r \in 1..Len(requests) : requests[r].destination = "source_subfolder"
    /\ \A i \in CallIdx : IsDriverCall(i) =>
         \A c \in StepsOf(LogOf(i), "configure") :
             /\ LogOf(i)[c].arg = "source_subfolder"
             /\ \A r \in 1..Len(requests) :
                  LogOf(i)[c].arg = requests[r].destination

\* source extracted and build configured what it extracted.
C7_Witness ==
    /\ \E i \in CallIdx : Ok(i, "source")
    /\ \E i \in CallIdx :
         /\ calls[i].op = "build"
         /\ \E c \in StepsOf(LogOf(i), "configure") : LogOf(i)[c].raised = NoError

\* C8: for an archive with a single enclosing root directory, once source
\* has succeeded the entries directly under the source subfolder are the
\* children of that root, and the root is no wrapper around them; the
\* archive holding foo-1.2.0/CMakeLists.txt gives the child CMakeLists.txt.
C8_RootStripped ==
    ((\E i \in CallIdx : Ok(i, "source")) /\ HasSingleRoot(archive)) =>
        /\ Children(fs[source_subfolder]) = { p[2] : p \in archive }
        /\ \A p \in archive : p \notin fs[source_subfolder]
        /\ <<"foo-1.2.0", "CMakeLists.txt">> \in archive
             => /\ "CMakeLists.txt" \in Children(fs[source_subfolder])
                /\ "foo-1.2.0" \notin Children(fs[source_subfolder])

C8_Witness ==
    /\ \E i \in CallIdx : Ok(i, "source")
    /\ <<"foo-1.2.0", "CMakeLists.txt">> \in archive
    /\ <<"CMakeLists.txt">> \in fs[source_subfolder]

NoDuplicates(s) == \A a, b \in 1..Len(s) : s[a] = s[b] => a = b

\* C9: package_info is idempotent: called twice in a row on an unchanged
\* staging location it gives the same ordered, duplicate-free list both
\* times, the second list replacing the first.
C9_DescribeIdempotent ==
    /\ \A i \in CallIdx : calls[i].op = "package_info" => NoDuplicates(calls[i].libs)
    /\ \A i \in CallIdx :
         (i > 1 /\ calls[i].op = "package_info" /\ calls[i - 1].op = "package_info")
             => calls[i].libs = calls[i - 1].libs
    /\ (calls # <<>> /\ calls[Len(calls)].op = "package_info")
         => libs = calls[Len(calls)].libs

\* Two calls in a row on a staging location holding several libraries.
C9_Witness ==
    /\ Len(calls) = 5
    /\ calls[4].op = "package_info"
    /\ calls[5].op = "package_info"
    /\ Len(staging) = 3
    /\ Len(libs) = 2

HoldsNoLibrary(listing) == \A f \in Files(listing) : f.ext \notin LibraryExtensions

\* C10: package_info on a staging location without library artifacts
\* completes with an empty artifact list and raises nothing.
C10_EmptyIsNotAnError ==
    (/\ calls # <<>>
     /\ calls[Len(calls)].op = "package_info"
     /\ HoldsNoLibrary(staging))
        => /\ calls[Len(calls)].raised = NoError
           /\ calls[Len(calls)].libs = <<>>
           /\ libs = <<>>

\* package_info ran on a staging location that was installed into and
\* holds no library.
C10_Witness ==
    /\ calls # <<>>
    /\ calls[Len(calls)].op = "package_info"
    /\ staging # <<>>
    /\ HoldsNoLibrary(staging)
    /\ libs = <<>>

=============================================================================
